---- MODULE Spec2Model ----
(***************************************************************************)
(* AsyncMessagesAPI (webexteamssdk/aio/api/messages.py): list, create, get *)
(* and delete over the "messages" resource.  Every public coroutine runs   *)
(* without interruption up to its await on the Session; the Session then   *)
(* returns, raises an ApiError, or the awaiting task is cancelled.         *)
(***************************************************************************)
EXTENDS Integers, Sequences, FiniteSets, TLC

VARIABLES op, args, pc, post_data, requests, file, raised, outcome, factory, iters

vars == <<op, args, pc, post_data, requests, file, raised, outcome, factory, iters>>

(* ------------------------------ bounds -------------------------------- *)

\* number of iterators taken from one list container
MaxIters == 2
\* largest number of items the Session hands back for one get_items call
MaxItems == 2

(* --------------------------- Python values ---------------------------- *)

None == [t |-> "NoneType", v |-> ""]
PyStr(s) == [t |-> "str", v |-> s]
PyInt(s) == [t |-> "int", v |-> s]
List(s) == [t |-> "list", v |-> s]
Dict(s) == [t |-> "dict", v |-> s]
Card(s) == [t |-> "AdaptiveCard", v |-> s]

IsNone(x) == x.t = "NoneType"

\* Python truth value of an argument: None, "" and [] are false
Truthy(x) ==
    CASE x.t = "NoneType" -> FALSE
      [] x.t = "list" -> Len(x.v) > 0
      [] x.t = "str" -> x.v # ""
      [] OTHER -> TRUE

isinstance(x, types) == x.t \in types

EmptyMap == [k \in {} |-> None]

API_ENDPOINT == "messages"
OBJECT_TYPE == "message"

(* ------------------- helpers of webexteamssdk.aio.utils ---------------- *)

\* check_type(obj, acceptable_types, optional): TRUE when no TypeError
check_type(obj, types, optional) ==
    \/ optional /\ IsNone(obj)
    \/ isinstance(obj, types)

\* dict_from_items_with_values(*dictionaries, **items): the dictionaries
\* first, then the keyword items, keeping the values that are not None
dict_from_items_with_values(d, items) ==
    LET keep(m) == {k \in DOMAIN m : ~IsNone(m[k])}
    IN  [k \in keep(d) \cup keep(items) |->
            IF k \in keep(items) THEN items[k] ELSE d[k]]

\* the references used as files[0]
UrlRef == "https://h/pic.png"
PathRef == "/tmp/report.txt"
UrlPathRef == "http://h/cat.png"
BadRef == "not-a-url-and-not-a-file"

\* scheme of a reference as urlparse gives it
Scheme(s) ==
    CASE s = UrlRef -> "https"
      [] s = UrlPathRef -> "http"
      [] OTHER -> ""

\* paths at which the file system holds a regular file; UrlPathRef is the
\* relative path http:/h/cat.png below the working directory
LocalFiles == {PathRef, UrlPathRef}

is_web_url(x) == Scheme(x.v) \in {"http", "https"}

is_local_file(x) == x.v \in LocalFiles

\* os.path.basename of a local path, the file_name of open_local_file
Basename(s) ==
    CASE s = PathRef -> "report.txt"
      [] s = UrlPathRef -> "cat.png"
      [] OTHER -> s

\* make_attachment(card): the wire-format mapping of a card
make_attachment(card) == Dict("attachment(" \o card.v \o ")")

(* ------------------------------ requests ------------------------------ *)

NoParts == <<>>

Request(method, path, kind, data, headers, parts) ==
    [method |-> method, path |-> path, kind |-> kind, data |-> data,
     headers |-> headers, parts |-> parts]

(* ------------------------------- create ------------------------------- *)

StrArgs == {None, PyStr("x"), PyInt("5")}

CreateFiles ==
    {None, PyStr("f"), List(<<>>), List(<<PyStr(UrlRef)>>), List(<<PyStr(PathRef)>>),
     List(<<PyStr(UrlPathRef)>>), List(<<PyStr(BadRef)>>), List(<<PyInt("5")>>),
     List(<<PyStr(PathRef), PyStr(UrlRef)>>), List(<<PyStr(BadRef), PyStr(BadRef)>>)}

CreateAttachments ==
    {None, List(<<>>), List(<<Dict("d1")>>), List(<<Card("c1")>>),
     List(<<Card("c1"), Dict("d1")>>), List(<<Dict("d1"), Card("c2")>>),
     List(<<PyInt("5")>>)}

\* **request_parameters: nothing, a key given as None, a key given a value
ExtraParams ==
    {EmptyMap, [k \in {"parentId"} |-> None], [k \in {"parentId"} |-> PyStr("P1")]}

CreateArgs ==
    [roomId : StrArgs, toPersonId : {None, PyStr("p")},
     toPersonEmail : {None, PyStr("e")}, text : StrArgs,
     markdown : {None, PyStr("m")}, files : CreateFiles,
     attachments : CreateAttachments, request_parameters : ExtraParams]

\* lines 184-190
CreateTypesOK(a) ==
    /\ check_type(a.roomId, {"str"}, TRUE)
    /\ check_type(a.toPersonId, {"str"}, TRUE)
    /\ check_type(a.toPersonEmail, {"str"}, TRUE)
    /\ check_type(a.text, {"str"}, TRUE)
    /\ check_type(a.markdown, {"str"}, TRUE)
    /\ check_type(a.files, {"list"}, TRUE)
    /\ check_type(a.attachments, {"list"}, TRUE)

\* variant of FilesCheck without the test of the list's length
FilesCheckFirstOnly(files) ==
    IF Truthy(files)
    THEN IF ~check_type(files.v[1], {"str"}, FALSE) THEN "TypeError" ELSE "ok"
    ELSE "ok"

\* lines 192-204: the error of the files validation, or "ok"
FilesCheck(files) ==
    IF Truthy(files)
    THEN IF Len(files.v) > 1 THEN "ValueError"
         ELSE IF ~check_type(files.v[1], {"str"}, FALSE) THEN "TypeError"
         ELSE "ok"
    ELSE "ok"

\* variant of FilesNormalized without the else branch of line 204
FilesKeptWhenEmpty(files) == files

\* lines 192-204: the value of files after the validation
FilesNormalized(files) == IF Truthy(files) THEN files ELSE None

\* lines 207-209: every element is a dict or an AdaptiveCard
AttachmentsCheck(attachments) ==
    IF Truthy(attachments)
    THEN IF \A i \in 1..Len(attachments.v) :
                check_type(attachments.v[i], {"dict", "AdaptiveCard"}, FALSE)
         THEN "ok" ELSE "TypeError"
    ELSE "ok"

\* lines 207-212: the list after the loop; the isinstance test of line 211
\* is made on the list, not on the element
ProcessAttachments(attachments) ==
    IF Truthy(attachments)
    THEN List([i \in 1..Len(attachments.v) |->
                 IF isinstance(attachments, {"AdaptiveCard"})
                 THEN make_attachment(attachments.v[i])
                 ELSE attachments.v[i]])
    ELSE attachments

\* lines 184-212: the first error raised before post_data is built
CreateValidation(a) ==
    IF ~CreateTypesOK(a) THEN "TypeError"
    ELSE IF FilesCheck(a.files) # "ok" THEN FilesCheck(a.files)
    ELSE AttachmentsCheck(a.attachments)

\* lines 214-223
CreatePostData(a) ==
    dict_from_items_with_values(
        a.request_parameters,
        [roomId |-> a.roomId, toPersonId |-> a.toPersonId,
         toPersonEmail |-> a.toPersonEmail, text |-> a.text,
         markdown |-> a.markdown, files |-> FilesNormalized(a.files),
         attachments |-> ProcessAttachments(a.attachments)])

\* variant of RequestShape that tests is_local_file before is_web_url
LocalTestFirst(files) ==
    IF ~Truthy(files) THEN "json"
    ELSE IF is_local_file(files.v[1]) THEN "multipart"
    ELSE IF is_web_url(files.v[1]) THEN "json"
    ELSE "invalid"

\* lines 226, 230, 257: the branch taken for the normalized files
RequestShape(files) ==
    IF ~Truthy(files) \/ is_web_url(files.v[1]) THEN "json"
    ELSE IF is_local_file(files.v[1]) THEN "multipart"
    ELSE "invalid"

\* lines 233-234: post_data after the two pops
PoppedPostData(pd) == [k \in DOMAIN pd \ {"files", "attachements"} |-> pd[k]]

\* iteration order of post_data: request_parameters first, then the keywords
KeyOrder ==
    <<"parentId", "roomId", "toPersonId", "toPersonEmail", "text", "markdown",
      "files", "attachments">>

\* lines 236-245: the file part, then one part per remaining field
MultipartParts(name, pd) ==
    LET keys == SelectSeq(KeyOrder, LAMBDA k : k \in DOMAIN pd)
    IN  <<[name |-> "files", filename |-> name, value |-> PyStr("<binary>")]>>
        \o [i \in 1..Len(keys) |->
              [name |-> keys[i], filename |-> "", value |-> pd[keys[i]]]]

\* lines 241-242: MultipartWriter.append takes str values; what it does with
\* a value of another type is the library's choice
AppendAccepts(pd) == \A k \in DOMAIN pd : pd[k].t = "str"

\* variant of Finally that does not close the file
FinallyLeavesOpen(f, exc) == [file |-> f, exc |-> exc]

\* variant of Finally that drops the pending exception
FinallySwallows(f, exc) == [file |-> "closed", exc |-> "none"]

\* lines 254-256: the finally block, entered with the state f of the local
\* `file` and the pending exception exc ("none" when the try block ended)
Finally(f, exc) ==
    IF f = "unbound" THEN [file |-> f, exc |-> "UnboundLocalError"]
    ELSE [file |-> "closed", exc |-> exc]

\* ObjectFactory(type_tag, json_object): the object built from a response
ObjectFactory(tag, json) == [tag |-> tag, json |-> json]

\* errors the Session raises for a non-2xx response
ApiErrors == {"ApiError(404)", "ApiError(429)"}

UnusedIter ==
    [st |-> "unused", reqs |-> <<>>, items |-> <<>>, pos |-> 0, out |-> <<>>,
     exc |-> "none"]

NoIters == [i \in 1..MaxIters |-> UnusedIter]

Init ==
    /\ op = "idle"
    /\ args = EmptyMap
    /\ pc = "idle"
    /\ post_data = EmptyMap
    /\ requests = <<>>
    /\ file = "unbound"
    /\ raised = "none"
    /\ outcome = "none"
    /\ factory = 0
    /\ iters = NoIters

\* the client as constructed: it keeps no state from one call to the next
\* (lines 66-67), so a behaviour follows one call made on it
CallerFree == pc = "idle"

\* a call that ended, before any await, with the exception exc; by is the
\* error a collaborator raised inside the call ("none" for a validation error)
Raise(exc, by, pd, f) ==
    /\ pc' = "done"
    /\ raised' = by
    /\ outcome' = exc
    /\ post_data' = pd
    /\ requests' = <<>>
    /\ file' = f

\* a call suspended at its await on the Session with the request req issued
Await(at, req, pd, f) ==
    /\ pc' = at
    /\ raised' = "none"
    /\ outcome' = "none"
    /\ post_data' = pd
    /\ requests' = <<req>>
    /\ file' = f

\* lines 139-253: create, from the call to its await on Session.post (or to
\* the exception that ends it); openOK and appendOK are the outcomes of
\* open_local_file and of MultipartWriter.append
Create(a, openOK, appendOK) ==
    /\ op' = "create"
    /\ args' = a
    /\ factory' = 0
    /\ iters' = NoIters
    /\ LET v == CreateValidation(a)
           pd == CreatePostData(a)
           files == FilesNormalized(a.files)
           shape == IF v = "ok" THEN RequestShape(files) ELSE "none"
           mp == PoppedPostData(pd)
       IN  CASE v # "ok" -> Raise(v, "none", EmptyMap, "unbound")
             [] shape = "json" ->
                  Await("await_post",
                        Request("POST", API_ENDPOINT, "json", pd, {}, NoParts),
                        pd, "unbound")
             [] shape = "multipart" /\ ~openOK ->
                  Raise(Finally("unbound", "OSError").exc, "OSError", mp,
                        Finally("unbound", "OSError").file)
             [] shape = "multipart" /\ openOK /\ ~appendOK ->
                  /\ ~AppendAccepts(mp)
                  /\ Raise(Finally("open", "TypeError").exc, "TypeError", mp,
                           Finally("open", "TypeError").file)
             [] shape = "multipart" /\ openOK /\ appendOK ->
                  Await("await_post",
                        Request("POST", API_ENDPOINT, "multipart", EmptyMap,
                                {"Content-type"},
                                MultipartParts(Basename(files.v[1].v), mp)),
                        mp, "open")
             [] OTHER -> Raise("ValueError", "none", pd, "unbound")

CreateCall ==
    /\ CallerFree
    /\ \E a \in CreateArgs, openOK \in BOOLEAN, appendOK \in BOOLEAN :
          Create(a, openOK, appendOK)

MessageIds == {None, PyInt("5"), PyStr(""), PyStr("M1"), PyStr("M2")}

\* variant of ItemPath without the separator
PathWithoutSlash(messageId) == API_ENDPOINT \o messageId.v

\* lines 284 and 303: API_ENDPOINT + "/" + messageId
ItemPath(messageId) == API_ENDPOINT \o "/" \o messageId.v

\* lines 266-284: get, from the call to its await on Session.get
GetCall(messageId) ==
    /\ CallerFree
    /\ op' = "get"
    /\ args' = [messageId |-> messageId]
    /\ factory' = 0
    /\ iters' = NoIters
    /\ IF check_type(messageId, {"str"}, FALSE)
       THEN Await("await_get",
                  Request("GET", ItemPath(messageId), "plain", EmptyMap, {},
                          NoParts),
                  EmptyMap, "unbound")
       ELSE Raise("TypeError", "none", EmptyMap, "unbound")

\* lines 289-303: delete, from the call to its await on Session.delete
DeleteCall(messageId) ==
    /\ CallerFree
    /\ op' = "delete"
    /\ args' = [messageId |-> messageId]
    /\ factory' = 0
    /\ iters' = NoIters
    /\ IF check_type(messageId, {"str"}, FALSE)
       THEN Await("await_delete",
                  Request("DELETE", ItemPath(messageId), "plain", EmptyMap, {},
                          NoParts),
                  EmptyMap, "unbound")
       ELSE Raise("TypeError", "none", EmptyMap, "unbound")

Awaiting == {"await_post", "await_get", "await_delete"}

\* what the call's exit does with the pending exception exc: only the
\* multipart branch of create runs a finally block
CallExit(exc) ==
    IF op = "create" /\ requests[1].kind = "multipart"
    THEN Finally(file, exc)
    ELSE [file |-> file, exc |-> exc]

\* lines 264, 287: the calls that build their result with the ObjectFactory
UsesFactory == {"create", "get"}

\* the Session returns the response JSON
SessionReturns ==
    /\ pc \in Awaiting
    /\ pc' = "done"
    /\ file' = CallExit("none").file
    /\ outcome' = IF CallExit("none").exc = "none" THEN "returned"
                  ELSE CallExit("none").exc
    /\ factory' = IF op \in UsesFactory /\ CallExit("none").exc = "none"
                  THEN factory + 1 ELSE factory
    /\ UNCHANGED <<op, args, post_data, requests, raised, iters>>

\* the Session raises the API error e
SessionRaises(e) ==
    /\ pc \in Awaiting
    /\ pc' = "done"
    /\ raised' = e
    /\ file' = CallExit(e).file
    /\ outcome' = IF CallExit(e).exc = "none" THEN "returned" ELSE CallExit(e).exc
    /\ factory' = IF op \in UsesFactory /\ CallExit(e).exc = "none"
                  THEN factory + 1 ELSE factory
    /\ UNCHANGED <<op, args, post_data, requests, iters>>

\* the awaiting task is cancelled: CancelledError is raised at the await
TaskCancelled ==
    /\ pc \in Awaiting
    /\ pc' = "done"
    /\ file' = CallExit("CancelledError").file
    /\ outcome' = CallExit("CancelledError").exc
    /\ UNCHANGED <<op, args, post_data, requests, raised, factory, iters>>

(* -------------------------------- list -------------------------------- *)

ListArgs ==
    [roomId : {PyStr("R1"), PyInt("5")}, mentionedPeople : {None, PyStr("me")},
     before : {None, PyStr("t")}, beforeMessage : {None, PyStr("M0")},
     max : {None, PyInt("50"), PyStr("x")}, request_parameters : ExtraParams]

\* lines 117-121
ListTypesOK(a) ==
    /\ check_type(a.roomId, {"str"}, FALSE)
    /\ check_type(a.mentionedPeople, {"str"}, TRUE)
    /\ check_type(a.before, {"str"}, TRUE)
    /\ check_type(a.beforeMessage, {"str"}, TRUE)
    /\ check_type(a.max, {"int"}, TRUE)

\* lines 123-130
ListParams(a) ==
    dict_from_items_with_values(
        a.request_parameters,
        [roomId |-> a.roomId, mentionedPeople |-> a.mentionedPeople,
         before |-> a.before, beforeMessage |-> a.beforeMessage,
         max |-> a.max])

\* the items of a response of n items, in the server's order
ServerItems(n) == [k \in 1..n |-> k]

\* variant of NextIndex that passes over an item
SkipIndex(pos) == pos + 2

\* lines 136-137: the index of the item the for loop takes after pos items
NextIndex(pos) == pos + 1

\* lines 136-137: the generator runs to its next yield, or to its end
Resume(it) ==
    IF NextIndex(it.pos) <= Len(it.items)
    THEN [it EXCEPT !.st = "yielded",
                    !.pos = NextIndex(it.pos),
                    !.out = Append(@, ObjectFactory(OBJECT_TYPE,
                                                    it.items[NextIndex(it.pos)]))]
    ELSE [it EXCEPT !.st = "done"]

\* line 69: the decorated list returns a container that keeps the call's
\* arguments; the body of list does not run yet
ListCall ==
    /\ CallerFree
    /\ \E a \in ListArgs :
          /\ op' = "list"
          /\ args' = a
    /\ pc' = "container"
    /\ iters' = NoIters
    /\ UNCHANGED <<post_data, requests, file, raised, outcome, factory>>

\* iteration begins on iterator i: the body of list runs with the container's
\* arguments up to its await on Session.get_items (lines 117-133)
IterStart(i) ==
    /\ op = "list"
    /\ iters[i].st = "unused"
    /\ iters' = [iters EXCEPT ![i] =
          IF ListTypesOK(args)
          THEN [@ EXCEPT !.st = "await_items",
                         !.reqs = <<Request("GET_ITEMS", API_ENDPOINT, "params",
                                            ListParams(args), {}, NoParts)>>]
          ELSE [@ EXCEPT !.st = "raised", !.exc = "TypeError"]]
    /\ UNCHANGED <<op, args, pc, post_data, requests, file, raised, outcome, factory>>

\* Session.get_items returns n items to iterator i, which yields the first
ItemsReturn(i, n) ==
    /\ iters[i].st = "await_items"
    /\ iters' = [iters EXCEPT ![i] = Resume([@ EXCEPT !.items = ServerItems(n)])]
    /\ UNCHANGED <<op, args, pc, post_data, requests, file, raised, outcome, factory>>

\* Session.get_items raises the API error e in iterator i
ItemsRaise(i, e) ==
    /\ iters[i].st = "await_items"
    /\ iters' = [iters EXCEPT ![i] = [@ EXCEPT !.st = "raised", !.exc = e]]
    /\ UNCHANGED <<op, args, pc, post_data, requests, file, raised, outcome, factory>>

\* the consumer asks iterator i for its next item
IterNext(i) ==
    /\ iters[i].st = "yielded"
    /\ iters' = [iters EXCEPT ![i] = Resume(@)]
    /\ UNCHANGED <<op, args, pc, post_data, requests, file, raised, outcome, factory>>

Next ==
    \/ CreateCall
    \/ \E m \in MessageIds : GetCall(m)
    \/ \E m \in MessageIds : DeleteCall(m)
    \/ SessionReturns
    \/ \E e \in ApiErrors : SessionRaises(e)
    \/ TaskCancelled
    \/ ListCall
    \/ \E i \in 1..MaxIters : IterStart(i)
    \/ \E i \in 1..MaxIters, n \in 0..MaxItems : ItemsReturn(i, n)
    \/ \E i \in 1..MaxIters, e \in ApiErrors : ItemsRaise(i, e)
    \/ \E i \in 1..MaxIters : IterNext(i)

Spec == Init /\ [][Next]_vars

(* ------------------------------ properties ---------------------------- *)

IterIds == 1..MaxIters

\* the create call passed the type checks of lines 184-190, 202 and 209
CreateWellTyped ==
    /\ CreateTypesOK(args)
    /\ Truthy(args.files) => \A i \in 1..Len(args.files.v) : args.files.v[i].t = "str"
    /\ Truthy(args.attachments) =>
          \A i \in 1..Len(args.attachments.v) :
              args.attachments.v[i].t \in {"dict", "AdaptiveCard"}

ValidationErrors == {"TypeError", "ValueError"}

\* the names and the values of the fields a request carries, in either shape
FieldNames(r) ==
    IF r.kind = "multipart"
    THEN {r.parts[i].name : i \in 2..Len(r.parts)}
    ELSE DOMAIN r.data

FieldValues(r) ==
    IF r.kind = "multipart"
    THEN {r.parts[i].value : i \in 2..Len(r.parts)}
    ELSE {r.data[k] : k \in DOMAIN r.data}

\* C1: a create call that has terminated, on whatever exit path, does not
\* leave the handle of the local file open.
C1_HandleClosedOnEveryExit ==
    (op = "create" /\ pc = "done") => file # "open"

\* the upload was cancelled during the post and the handle it held is closed
C1_Witness ==
    /\ op = "create" /\ pc = "done"
    /\ outcome = "CancelledError"
    /\ Len(requests) = 1 /\ requests[1].kind = "multipart"
    /\ file = "closed"

\* C2: a create call whose files list has two or more entries, or whose
\* single entry is neither a web URL nor a local file, ends with a validation
\* error and no request; the error is the ValueError whenever the arguments
\* are of the right types.
C2_FilesValidationBeforeRequest ==
    (op = "create" /\ args.files.t = "list" /\ Len(args.files.v) >= 1) =>
        LET f == args.files.v
            rejected ==
                \/ Len(f) >= 2
                \/ Len(f) = 1 /\ f[1].t = "str"
                     /\ ~is_web_url(f[1]) /\ ~is_local_file(f[1])
        IN  rejected =>
                /\ pc = "done"
                /\ requests = <<>>
                /\ outcome \in ValidationErrors
                /\ (CreateTypesOK(args) /\ Len(f) >= 2) => outcome = "ValueError"
                /\ CreateWellTyped => outcome = "ValueError"

\* a two-entry list whose first entry is an uploadable local file is refused
C2_Witness ==
    /\ op = "create" /\ pc = "done"
    /\ args.files = List(<<PyStr(PathRef), PyStr(UrlRef)>>)
    /\ outcome = "ValueError"
    /\ requests = <<>>

\* C3: a well-typed create call with files absent, empty, or a single web
\* URL issues exactly one request, a JSON POST to messages whose body is the
\* post-data mapping, without multipart headers or parts and without opening
\* a file, also when the URL names an existing local file.
C3_JsonPostForNoFileOrUrl ==
    (/\ op = "create"
     /\ CreateWellTyped
     /\ \/ ~Truthy(args.files)
        \/ Len(args.files.v) = 1 /\ is_web_url(args.files.v[1])) =>
        /\ Len(requests) = 1
        /\ requests[1].method = "POST"
        /\ requests[1].path = "messages"
        /\ requests[1].kind = "json"
        /\ requests[1].data = post_data
        /\ requests[1].headers = {}
        /\ requests[1].parts = <<>>
        /\ Truthy(args.files) =>
              "files" \in DOMAIN requests[1].data /\ requests[1].data["files"] = args.files
        /\ file = "unbound"

\* the single entry is a web URL and also an existing local file
C3_Witness ==
    /\ op = "create" /\ pc = "done" /\ outcome = "returned"
    /\ args.files = List(<<PyStr(UrlPathRef)>>)
    /\ is_local_file(args.files.v[1])
    /\ Len(requests) = 1 /\ requests[1].kind = "json"

\* C4: the attachments carried by a request of create never hold a card
\* object: every card of the list was replaced by its wire-format mapping.
C4_NoCardObjectInRequest ==
    (op = "create" /\ requests # <<>>) =>
        \A x \in FieldValues(requests[1]) :
            x.t = "list" => \A i \in 1..Len(x.v) : x.v[i].t # "AdaptiveCard"

\* C5: when opening the local file fails, create ends with the I/O error of
\* the open, sends no request and leaves no handle open.
C5_OpenErrorReachesCaller ==
    (op = "create" /\ raised = "OSError") =>
        /\ pc = "done"
        /\ outcome = "OSError"
        /\ requests = <<>>
        /\ file # "open"

\* the parameters the list call was given, without those left as None
GivenListParams ==
    LET named == {"roomId", "mentionedPeople", "before", "beforeMessage", "max"}
        extra == args.request_parameters
    IN  [k \in {n \in named : args[n].t # "NoneType"}
                \cup {x \in DOMAIN extra : extra[x].t # "NoneType"} |->
            IF k \in named THEN args[k] ELSE extra[k]]

\* what iterator i has to have yielded after its first n items
YieldedPrefix(i, n) ==
    [k \in 1..n |-> [tag |-> "message", json |-> iters[i].items[k]]]

C6_EachIteratorItsOwnSequence ==
    op = "list" =>
        \A i \in IterIds :
            /\ iters[i].st \in {"await_items", "yielded", "done"} =>
                  /\ Len(iters[i].reqs) = 1
                  /\ iters[i].reqs[1].method = "GET_ITEMS"
                  /\ iters[i].reqs[1].path = "messages"
                  /\ iters[i].reqs[1].data = GivenListParams
            /\ iters[i].st = "yielded" =>
                  /\ iters[i].pos \in 1..Len(iters[i].items)
                  /\ iters[i].out = YieldedPrefix(i, iters[i].pos)
            /\ iters[i].st = "done" =>
                  iters[i].out = YieldedPrefix(i, Len(iters[i].items))

C6_StepLeavesOthersAlone ==
    (op = "list" /\ op' = "list") =>
        \A i \in IterIds :
            iters'[i] # iters[i] =>
                \A j \in IterIds \ {i} : iters'[j] = iters[j]

\* C6: every iterator taken from the container of list issues its own
\* get_items request with the parameters of the list call and yields the
\* whole of its own response in order, and a step of one iterator leaves
\* every other iterator of the container as it was.
C6_RestartableIndependentIterators ==
    [](C6_EachIteratorItsOwnSequence) /\ [][C6_StepLeavesOthersAlone]_vars

\* two iterators of one container, interleaved: one has yielded all of a
\* two-item response, the other is in the middle of its own
C6_Witness ==
    /\ op = "list"
    /\ iters[1].st = "done" /\ Len(iters[1].out) = 2
    /\ iters[2].st = "yielded" /\ iters[2].pos = 1 /\ Len(iters[2].items) = 2
    /\ iters[1].reqs = iters[2].reqs

\* every request issued so far, by a call or by an iterator
AllRequests ==
    {requests[n] : n \in 1..Len(requests)}
        \cup UNION {{iters[i].reqs[n] : n \in 1..Len(iters[i].reqs)} : i \in IterIds}

\* C7: no request carries a null value, and a parameter of list or create
\* left as None, a request parameter given as None, or files given as the
\* empty list, has no key in the request.
C7_NoNullValuedKey ==
    /\ \A r \in AllRequests : \A x \in FieldValues(r) : x.t # "NoneType"
    /\ op \in {"create", "list"} =>
          \A r \in AllRequests :
              /\ \A k \in DOMAIN args \ {"request_parameters"} :
                    args[k].t = "NoneType" => k \notin FieldNames(r)
              /\ \A k \in DOMAIN args.request_parameters :
                    args.request_parameters[k].t = "NoneType" =>
                        k \notin FieldNames(r)
              /\ (op = "create" /\ args.files = List(<<>>)) =>
                    "files" \notin FieldNames(r)

\* create was given files=[] and a request parameter set to None, and posted
C7_Witness ==
    /\ op = "create" /\ Len(requests) = 1
    /\ args.files = List(<<>>)
    /\ args.text = None
    /\ "parentId" \in DOMAIN args.request_parameters
    /\ args.request_parameters["parentId"] = None
    /\ "roomId" \in FieldNames(requests[1])

\* C8: create, get and delete issue at most one request; when the Session
\* raises an API error the call ends with that very error, after the one
\* request, without an ObjectFactory call; an iterator of list whose
\* get_items raised ends with that error, one request and nothing yielded.
C8_ApiErrorPropagatesUnchanged ==
    /\ Len(requests) <= 1
    /\ raised \in ApiErrors =>
          /\ pc = "done"
          /\ outcome = raised
          /\ Len(requests) = 1
          /\ factory = 0
    /\ \A i \in IterIds :
          iters[i].exc \in ApiErrors =>
              /\ iters[i].st = "raised"
              /\ Len(iters[i].reqs) = 1
              /\ iters[i].out = <<>>

\* the Session raised during the multipart post of a local file
C8_Witness ==
    /\ op = "create" /\ pc = "done"
    /\ Len(requests) = 1 /\ requests[1].kind = "multipart"
    /\ file = "closed"
    /\ factory = 0
    /\ raised = "ApiError(429)"
    /\ outcome = "ApiError(429)"

\* C9: a well-typed create call whose single files entry is a local file
\* (and no web URL) that reaches its post sends a multipart request with one
\* part named files carrying the file's name, one part per other field of
\* the call, and no part named attachments.
C9_MultipartWithoutAttachments ==
    (/\ op = "create"
     /\ requests # <<>>
     /\ Truthy(args.files)
     /\ is_local_file(args.files.v[1]) /\ ~is_web_url(args.files.v[1])) =>
        LET r == requests[1]
            names == [i \in 1..Len(r.parts) |-> r.parts[i].name]
        IN  /\ r.kind = "multipart"
            /\ Len(r.parts) >= 1
            /\ r.parts[1].name = "files"
            /\ r.parts[1].filename = Basename(args.files.v[1].v)
            /\ \A i, j \in 1..Len(names) : names[i] = names[j] => i = j
            /\ \A i \in 1..Len(names) : names[i] # "attachments"

\* C10 as stated: get refuses a messageId that is not a string or is the
\* empty string before any request, and every GET goes to
\* messages/{messageId} with a non-empty messageId.
C10_NonEmptyMessageId ==
    op = "get" =>
        /\ (args.messageId.t # "str" \/ args.messageId.v = "") =>
              /\ pc = "done"
              /\ outcome \in ValidationErrors
              /\ requests = <<>>
        /\ requests # <<>> =>
              /\ requests[1].method = "GET"
              /\ args.messageId.v # ""
              /\ requests[1].path = "messages/" \o args.messageId.v

\* C10, amended: get refuses a messageId that is not a string before any
\* request, and every GET goes to messages/{messageId}; the empty string is
\* accepted and requested as messages/.
C10_StringMessageId ==
    op = "get" =>
        /\ args.messageId.t # "str" =>
              /\ pc = "done"
              /\ outcome = "TypeError"
              /\ requests = <<>>
        /\ args.messageId.t = "str" => Len(requests) = 1
        /\ requests # <<>> =>
              /\ requests[1].method = "GET"
              /\ requests[1].path = "messages/" \o args.messageId.v

\* get("") went to the Session as GET messages/
C10_Witness ==
    /\ op = "get" /\ pc = "done"
    /\ args.messageId = PyStr("")
    /\ Len(requests) = 1 /\ requests[1].path = "messages/"
====
